---- MODULE Spec2Model ----
(***************************************************************************)
(* Model of the distortion plug-in (src/src/lib.rs): the lifecycle calls   *)
(* initialize / reset / process of `impl Plugin for Distortion`, the two   *)
(* smoothed parameters (threshold, mix), the hard clip with wet/dry blend  *)
(* and the peak meter.                                                     *)
(*                                                                         *)
(* f32 values are modelled as a small binary floating-point format:        *)
(* integers counted in units of 2^-FracBits, of which only those with a    *)
(* mantissa of at most PrecBits bits are representable.  Every arithmetic  *)
(* operation rounds its exact result to the nearest representable value    *)
(* (ties to even), as IEEE-754 single precision does with 24 bits.         *)
(***************************************************************************)
EXTENDS Integers, Sequences, FiniteSets, TLC

\* ------------------------------------------------------------ bounds
\* mantissa bits of the modelled float format (f32: 24)
PrecBits == 5
\* the value 1.0 is 2^FracBits units
FracBits == 7
\* longest block (sample frames per process call) the host hands over
MaxFrames == 2
\* how many set_target calls the control thread makes before it stops
MaxSets == 2

\* ------------------------------------------------------------ f32 arithmetic
RECURSIVE Exp2(_)
Exp2(k) == IF k = 0 THEN 1 ELSE 2 * Exp2(k - 1)

RECURSIVE BitLen(_)
BitLen(q) == IF q = 0 THEN 0 ELSE 1 + BitLen(q \div 2)

Abs(v) == IF v < 0 THEN -v ELSE v

Min(a, b) == IF a < b THEN a ELSE b

\* 1.0
ONE == Exp2(FracBits)

\* the spacing of representable values at magnitude v
Ulp(v) == LET L == BitLen(Abs(v)) IN IF L > PrecBits THEN Exp2(L - PrecBits) ELSE 1

\* n/d >= 0 rounded to the nearest representable value, ties to the even mantissa
RoundPos(n, d) ==
    LET s == Ulp(n \div d)
        D == d * s
        k == n \div D
        r == n % D
    IN  IF 2 * r > D \/ (2 * r = D /\ k % 2 = 1) THEN (k + 1) * s ELSE k * s

\* the f32 nearest to the rational n/d (d > 0)
F32(n, d) == IF n >= 0 THEN RoundPos(n, d) ELSE -RoundPos(-n, d)

FAdd(a, b) == F32(a + b, 1)
FSub(a, b) == F32(a - b, 1)
FMul(a, b) == F32(a * b, ONE)
\* a / b for b > 0
FDiv(a, b) == F32(a * ONE, b)

RECURSIVE FPow(_, _)
FPow(r, n) == IF n = 0 THEN ONE ELSE FMul(FPow(r, n - 1), r)

\* the representable value next below v > 0
Pred(v) == IF v <= Exp2(PrecBits) THEN v - 1 ELSE v - Ulp(v - 1)

\* q^(1/n) for q >= 0 and an integer n >= 1 (powf with exponent 1/n): the largest
\* representable r whose n-th power, in this arithmetic, does not exceed q; the
\* root lies between q and 1.0, so the search descends from the larger of the two
RECURSIVE RootScan(_, _, _)
RootScan(r, q, n) ==
    IF r = 0 \/ FPow(r, n) <= q THEN r ELSE RootScan(Pred(r), q, n)

FRoot(q, n) == RootScan(IF q > ONE THEN q ELSE ONE, q, n)

\* ------------------------------------------------------------ program constants
\* const PEAK_METER_DECAY_MS: f64 = 150.0
PEAK_METER_DECAY_MS == 150
\* util::MINUS_INFINITY_DB (-100.0), the initial value of the peak meter
MINUS_INFINITY_DB == F32(-100 * ONE, 1)
Params == {"threshold", "mix"}

\* FloatParam::new(name, default, range) and with_smoother of each parameter:
\* threshold is smoothed logarithmically over 50 ms, mix has no smoother
\* (SmoothingStyle::None)
ParamDefault(p) == IF p = "threshold" THEN ONE \div 2 ELSE 0
SmoothingStyle(p) ==
    IF p = "threshold" THEN [kind |-> "Logarithmic", ms |-> 50]
    ELSE [kind |-> "None", ms |-> 0]

\* ------------------------------------------------------------ inputs
\* sample rates a host may configure (Hz); 0 is the malformed configuration.  The
\* nonzero rate makes sample_rate * PEAK_METER_DECAY_MS / 1000 an integer (6) and
\* the 50 ms ramp of threshold two samples long
SampleRates == {0, 40}
\* 0.3 as the format holds it
C03 == F32(3 * ONE, 10)
\* values the host or the UI sets the parameters to
ParamValues(p) == IF p = "threshold" THEN {C03, ONE} ELSE {(7 * ONE) \div 8, ONE}

RECURSIVE SeqsOf(_, _)
SeqsOf(S, n) == IF n = 0 THEN {<<>>}
                ELSE {Append(q, e) : q \in SeqsOf(S, n - 1), e \in S}
\* the blocks of 1..MaxFrames stereo sample frames drawn from frames
BlocksOf(frames) == UNION {SeqsOf(frames, n) : n \in 1..MaxFrames}

\* the sample frames (one sample per channel of the stereo layout) of the blocks
\* the host hands to process
Frames == { <<ONE, -ONE>>, <<0, 0>> }
Blocks == BlocksOf(Frames)

\* a wider choice of settled parameter values and of sample frames, for the
\* per-sample transfer function
EffectThresholds == {1, C03, ONE \div 2, ONE}
EffectMixes == {0, ONE \div 2, (7 * ONE) \div 8, ONE}
EffectFrames == { <<ONE, -ONE>>, <<ONE \div 2, C03>>, <<C03, 0>>, <<-C03, ONE>>, <<0, -C03>> }

\* ------------------------------------------------------------ state
VARIABLES
    lifecycle,                \* the last lifecycle call: Created, Initialized, Reset, Processing
    sample_rate,              \* _buffer_config.sample_rate of the last initialize
    init_result,              \* what the last initialize returned
    peak_meter_decay_weight,  \* Distortion::peak_meter_decay_weight
    peak_meter,               \* Distortion::peak_meter (AtomicF32)
    editor_open,              \* params.editor_state.is_open()
    smoothed,                 \* params.<p>.smoothed: the ramp state of each parameter
    buffer,                   \* the block of the last process call, processed in place
    log,                      \* per sample frame of that call: what was read and written
    last_set,                 \* per parameter: the value of the last set_target
    ramp_len,                 \* per parameter: the ramp length that set_target began
    since,                    \* per parameter: next() calls since then, counted up to ramp_len
    sets                      \* set_target calls made so far

vars == <<lifecycle, sample_rate, init_result, peak_meter_decay_weight, peak_meter,
          editor_open, smoothed, buffer, log, last_set, ramp_len, since, sets>>

\* ------------------------------------------------------------ smoothed parameters
\* the number of samples of a ramp at a sample rate
NumSteps(style, sr) ==
    IF style.kind = "None" THEN 1 ELSE (sr * style.ms + 500) \div 1000

\* the per-sample factor of a logarithmic ramp from start to target in steps steps
StepSize(style, start, target, steps) ==
    IF style.kind = "Logarithmic" /\ steps > 0 /\ start > 0
    THEN FRoot(FDiv(target, start), steps)
    ELSE 0

\* a smoother settled at value v
Settled(v) == [current |-> v, target |-> v, steps_left |-> 0, step_size |-> 0]

\* set_target that leaves a ramp in progress alone
SmootherSetTargetUnlessRamping(p, s, sr, value) ==
    IF s.steps_left > 0 THEN s
    ELSE LET k == NumSteps(SmoothingStyle(p), sr)
         IN  [current    |-> s.current,
              target     |-> value,
              steps_left |-> k,
              step_size  |-> StepSize(SmoothingStyle(p), s.current, value, k)]

\* set_target(value): begin a ramp from the current value to value
SmootherSetTarget(p, s, sr, value) ==
    LET k == NumSteps(SmoothingStyle(p), sr)
    IN  [current    |-> s.current,
         target     |-> value,
         steps_left |-> k,
         step_size  |-> StepSize(SmoothingStyle(p), s.current, value, k)]

\* next(): the value delivered for one sample, and the ramp state it leaves
SmootherNext(s) ==
    IF s.steps_left > 1
    THEN LET v == FMul(s.current, s.step_size)
         IN  [value |-> v,
              state |-> [s EXCEPT !.current = v, !.steps_left = s.steps_left - 1]]
    ELSE IF s.steps_left = 1
    THEN [value |-> s.target,
          state |-> [s EXCEPT !.current = s.target, !.steps_left = 0]]
    ELSE [value |-> s.target, state |-> s]

\* ------------------------------------------------------------ the effect
\* the clamp with its negative branch lost
ClipPositiveOnly(sample, threshold) ==
    IF sample > threshold THEN threshold ELSE sample

\* the two-sided clamp of process: the wet sample
Clip(sample, threshold) ==
    IF sample > threshold THEN threshold
    ELSE IF sample < -threshold THEN -threshold
    ELSE sample

\* the blend with the two weights exchanged
BlendSwapped(clean_out, output, mix) ==
    FAdd(FMul(mix, clean_out), FMul(FSub(ONE, mix), output))

\* the blend with the dry signal at full level
BlendFullDry(clean_out, output, mix) ==
    FAdd(clean_out, FMul(mix, output))

\* *sample = ((1.0-mix) * clean_out) + (mix * output)
Blend(clean_out, output, mix) ==
    FAdd(FMul(FSub(ONE, mix), clean_out), FMul(mix, output))

\* ------------------------------------------------------------ the peak meter
\* 0.25^(1 / (sample_rate * PEAK_METER_DECAY_MS / 1000)); at sample rate 0 the
\* exponent is recip(0.0) = +inf and powf gives 0.0
DecayWeight(sr) ==
    LET n == (sr * PEAK_METER_DECAY_MS) \div 1000
    IN  IF n = 0 THEN 0 ELSE FRoot(ONE \div 4, n)

\* `let mut amplitude = 0.0`, which the sample loop never adds to
FrameAmplitude(outputs) == 0

\* the fold without its first branch: the meter only ever decays
PeakFoldDecayOnly(amplitude, current_peak_meter, weight) ==
    FAdd(FMul(current_peak_meter, weight), FMul(amplitude, FSub(ONE, weight)))

\* the new value of the peak meter
PeakFold(amplitude, current_peak_meter, weight) ==
    IF amplitude > current_peak_meter
    THEN amplitude
    ELSE FAdd(FMul(current_peak_meter, weight), FMul(amplitude, FSub(ONE, weight)))

\* ------------------------------------------------------------ process
\* mix drawn from the threshold parameter's smoother
DrawParamsSameSmoother(sm) ==
    [threshold |-> SmootherNext(sm["threshold"]),
     mix       |-> [value |-> SmootherNext(sm["threshold"]).value, state |-> sm["mix"]]]

\* let threshold = self.params.threshold.smoothed.next();
\* let mix = self.params.mix.smoothed.next();
DrawParams(sm) ==
    [threshold |-> SmootherNext(sm["threshold"]), mix |-> SmootherNext(sm["mix"])]

\* the meter updated whether or not the editor is open
MeterGateAlways(open) == TRUE

\* if self.params.editor_state.is_open()
MeterGate(open) == open

\* one iteration of `for channel_samples in buffer.iter_samples()`: st carries the
\* state the loop changes (smoothed, since, peak_meter) and the block written so far
ProcessFrame(st, channel_samples) ==
    LET num_samples == Len(channel_samples)
        drawn == DrawParams(st.smoothed)
        threshold == drawn["threshold"].value
        mix == drawn["mix"].value
        wet == [c \in 1..num_samples |-> Clip(channel_samples[c], threshold)]
        out == [c \in 1..num_samples |-> Blend(channel_samples[c], wet[c], mix)]
        amplitude == Abs(FDiv(FrameAmplitude(out), num_samples * ONE))
        new_peak_meter == PeakFold(amplitude, st.peak_meter, peak_meter_decay_weight)
        stored == MeterGate(editor_open)
        calls == [p \in Params |-> Min(st.since[p] + 1, ramp_len[p])]
    IN  [smoothed   |-> [p \in Params |-> drawn[p].state],
         since      |-> calls,
         peak_meter |-> IF stored THEN new_peak_meter ELSE st.peak_meter,
         buffer     |-> Append(st.buffer, out),
         log        |-> Append(st.log,
                          [input       |-> channel_samples,
                           threshold   |-> threshold,
                           mix         |-> mix,
                           wet         |-> wet,
                           output      |-> out,
                           calls       |-> calls,
                           steps_left  |-> [p \in Params |-> drawn[p].state.steps_left],
                           stored      |-> stored,
                           peak_before |-> st.peak_meter,
                           amplitude   |-> amplitude,
                           peak_after  |-> IF stored THEN new_peak_meter
                                           ELSE st.peak_meter])]

RECURSIVE ProcessFrames(_, _)
ProcessFrames(st, frames) ==
    IF frames = <<>> THEN st
    ELSE ProcessFrames(ProcessFrame(st, Head(frames)), Tail(frames))

\* ------------------------------------------------------------ operations
Init ==
    /\ lifecycle = "Created"
    /\ sample_rate = 0
    /\ init_result = FALSE
    /\ peak_meter_decay_weight = ONE
    /\ peak_meter = MINUS_INFINITY_DB
    /\ editor_open = FALSE
    /\ smoothed = [p \in Params |-> Settled(ParamDefault(p))]
    /\ buffer = <<>>
    /\ log = <<>>
    /\ last_set = [p \in Params |-> ParamDefault(p)]
    /\ ramp_len = [p \in Params |-> 0]
    /\ since = [p \in Params |-> 0]
    /\ sets = 0

\* Plugin::initialize: sets the decay weight from the sample rate and returns true
Initialize(sr) ==
    /\ lifecycle' = "Initialized"
    /\ sample_rate' = sr
    /\ peak_meter_decay_weight' = DecayWeight(sr)
    /\ init_result' = TRUE
    /\ buffer' = <<>>
    /\ log' = <<>>
    /\ UNCHANGED <<peak_meter, editor_open, smoothed, last_set, ramp_len, since, sets>>

\* a reset that snaps every ramp to its target
ResetSnapsRamps ==
    /\ lifecycle \in {"Initialized", "Reset", "Processing"}
    /\ init_result
    /\ lifecycle' = "Reset"
    /\ smoothed' = [p \in Params |-> Settled(smoothed[p].target)]
    /\ buffer' = <<>>
    /\ log' = <<>>
    /\ UNCHANGED <<sample_rate, init_result, peak_meter_decay_weight, peak_meter,
                   editor_open, last_set, ramp_len, since, sets>>

\* Plugin::reset: an empty body
Reset ==
    /\ lifecycle \in {"Initialized", "Reset", "Processing"}
    /\ init_result
    /\ lifecycle' = "Reset"
    /\ buffer' = <<>>
    /\ log' = <<>>
    /\ UNCHANGED <<sample_rate, init_result, peak_meter_decay_weight, peak_meter,
                   editor_open, smoothed, last_set, ramp_len, since, sets>>

\* Plugin::process on one block
Process(block) ==
    /\ lifecycle \in {"Reset", "Processing"}
    /\ \E end \in {ProcessFrames([smoothed |-> smoothed, since |-> since,
                                   peak_meter |-> peak_meter, buffer |-> <<>>,
                                   log |-> <<>>], block)} :
           /\ smoothed' = end.smoothed
           /\ since' = end.since
           /\ peak_meter' = end.peak_meter
           /\ buffer' = end.buffer
           /\ log' = end.log
    /\ lifecycle' = "Processing"
    /\ UNCHANGED <<sample_rate, init_result, peak_meter_decay_weight, editor_open,
                   last_set, ramp_len, sets>>

\* the control thread sets a parameter: smoothed.set_target(sample_rate, value)
SetTarget(p, value) ==
    /\ lifecycle # "Created"
    /\ sets < MaxSets
    /\ sets' = sets + 1
    /\ smoothed' = [smoothed EXCEPT ![p] = SmootherSetTarget(p, @, sample_rate, value)]
    /\ last_set' = [last_set EXCEPT ![p] = value]
    /\ ramp_len' = [ramp_len EXCEPT ![p] = NumSteps(SmoothingStyle(p), sample_rate)]
    /\ since' = [since EXCEPT ![p] = 0]
    /\ buffer' = <<>>
    /\ log' = <<>>
    /\ UNCHANGED <<lifecycle, sample_rate, init_result, peak_meter_decay_weight,
                   peak_meter, editor_open>>

\* the user opens or closes the editor window
ToggleEditor ==
    /\ editor_open' = ~editor_open
    /\ buffer' = <<>>
    /\ log' = <<>>
    /\ UNCHANGED <<lifecycle, sample_rate, init_result, peak_meter_decay_weight,
                   peak_meter, smoothed, last_set, ramp_len, since, sets>>

Next ==
    \/ \E sr \in SampleRates : Initialize(sr)
    \/ Reset
    \/ \E block \in Blocks : Process(block)
    \/ \E p \in Params : \E value \in ParamValues(p) : SetTarget(p, value)
    \/ ToggleEditor

Spec == Init /\ [][Next]_vars

\* the plug-in initialized and reset, its parameters settled at values set earlier
EffectInit ==
    /\ lifecycle = "Reset"
    /\ sample_rate = 40
    /\ init_result = TRUE
    /\ peak_meter_decay_weight = DecayWeight(40)
    /\ peak_meter = MINUS_INFINITY_DB
    /\ editor_open = FALSE
    /\ \E t \in EffectThresholds : \E m \in EffectMixes :
          /\ smoothed = [p \in Params |-> Settled(IF p = "threshold" THEN t ELSE m)]
          /\ last_set = [p \in Params |-> IF p = "threshold" THEN t ELSE m]
    /\ buffer = <<>>
    /\ log = <<>>
    /\ ramp_len = [p \in Params |-> 0]
    /\ since = [p \in Params |-> 0]
    /\ sets = 0

EffectNext == \E block \in BlocksOf(EffectFrames) : Process(block)

EffectSpec == EffectInit /\ [][EffectNext]_vars

\* ------------------------------------------------------------ properties
Sign(v) == IF v > 0 THEN 1 ELSE IF v < 0 THEN -1 ELSE 0

\* clamp(x, lo, hi) as the specification writes it
Clamp(x, lo, hi) == IF x < lo THEN lo ELSE IF x > hi THEN hi ELSE x

\* the value process drew for parameter p at sample frame i of the last block
Drawn(i, p) == IF p = "threshold" THEN log[i].threshold ELSE log[i].mix

\* sample frame i of the last block came out silent
SilentFrame(i) == \A c \in DOMAIN log[i].output : log[i].output[c] = 0

\* how many times the last process call stored the peak meter
Stores == Cardinality({i \in DOMAIN log : log[i].stored})

\* C1: for every threshold > 0 that the threshold smoother delivered and every
\* input sample x, the wet (clipped) value lies in [-threshold, +threshold] and
\* equals x whenever |x| <= threshold.
C1_ClipWithinThreshold ==
    \A i \in DOMAIN log : \A c \in DOMAIN log[i].input :
        LET x == log[i].input[c]
            t == log[i].threshold
            w == log[i].wet[c]
        IN  t > 0 => /\ -t <= w
                     /\ w <= t
                     /\ (Abs(x) <= t => w = x)

\* a frame with one sample above the threshold and one below its negative,
\* beside a frame with a nonzero sample inside the threshold
C1_Witness ==
    \E i, j \in DOMAIN log :
        /\ log[i].threshold > 0
        /\ log[i].input[1] > log[i].threshold
        /\ log[i].input[2] < -log[i].threshold
        /\ log[j].input[1] # 0
        /\ Abs(log[j].input[1]) < log[j].threshold
        /\ log[j].wet[1] = log[j].input[1]

\* C2: for every input sample and every threshold > 0, the sample written back
\* equals the input when mix = 0 and equals clamp(input, -threshold, +threshold)
\* when mix = 1.
C2_MixEndpoints ==
    \A i \in DOMAIN log : \A c \in DOMAIN log[i].input :
        LET x == log[i].input[c]
            t == log[i].threshold
        IN  t > 0 =>
              /\ (log[i].mix = 0 => buffer[i][c] = x)
              /\ (log[i].mix = ONE => buffer[i][c] = Clamp(x, -t, t))

\* the end-to-end scenario: input [1.0, -1.0, 0.5, 0.3], threshold 0.3, mix 1.0
C2_Witness ==
    /\ Len(log) = 2
    /\ log[1].input = <<ONE, -ONE>>
    /\ log[2].input = <<ONE \div 2, C03>>
    /\ \A i \in DOMAIN log : log[i].threshold = C03 /\ log[i].mix = ONE
    /\ buffer = << <<C03, -C03>>, <<C03, C03>> >>

\* C3: when the editor is open and all output samples of the block have absolute
\* value a, with a above the current peak-meter value, the peak meter stored by
\* the update equals a.
C3_PeakTakesBlockAmplitude ==
    (/\ log # <<>>
     /\ editor_open
     /\ \A i \in DOMAIN log : \A c \in DOMAIN log[i].output :
            Abs(log[i].output[c]) = Abs(log[1].output[1])
     /\ Abs(log[1].output[1]) > log[1].peak_before)
    => peak_meter = Abs(log[1].output[1])

\* the editor is open and a one-frame block at mix 0 came out at full scale on
\* both channels while the meter held the sentinel
C3_Witness ==
    /\ Len(log) = 1
    /\ editor_open
    /\ log[1].stored
    /\ log[1].output = <<ONE, -ONE>>
    /\ log[1].peak_before = MINUS_INFINITY_DB

\* C4 as claimed: when the editor is open and process handles a silent block
\* while the peak meter holds p, the updated peak equals p * decay_weight, for
\* every p the meter can hold, the Created-state sentinel included.
C4_Original ==
    (log # <<>> /\ editor_open /\ \A i \in DOMAIN log : SilentFrame(i))
    => peak_meter = FMul(log[1].peak_before, peak_meter_decay_weight)

\* C4 as amended: each update of the peak meter on a silent frame stores
\* p * decay_weight when the meter holds p >= 0, and stores 0 (the amplitude,
\* which is above p) when it holds a negative p, as the Created-state sentinel
\* is; the meter ends at the value of the last update.
C4_SilenceDecaysNonNegativePeak ==
    /\ \A i \in DOMAIN log :
         (log[i].stored /\ SilentFrame(i)) =>
            IF log[i].peak_before >= 0
            THEN log[i].peak_after = FMul(log[i].peak_before, peak_meter_decay_weight)
            ELSE log[i].peak_after = 0
    /\ \A i \in 2..Len(log) : log[i].peak_before = log[i - 1].peak_after
    /\ log # <<>> => peak_meter = log[Len(log)].peak_after

\* two silent frames metered from the sentinel: the first update leaves the
\* sentinel, the second decays a non-negative peak
C4_Witness ==
    /\ Len(log) = 2
    /\ \A i \in DOMAIN log : log[i].stored /\ SilentFrame(i)
    /\ log[1].peak_before = MINUS_INFINITY_DB
    /\ log[2].peak_before = 0
    /\ peak_meter_decay_weight > 0
    /\ peak_meter_decay_weight < ONE

\* C5 as claimed: one process call on a block of N >= 1 sample frames stores the
\* peak meter exactly once if the editor is open and not at all if it is closed.
C5_Original ==
    log # <<>> => Stores = IF editor_open THEN 1 ELSE 0

\* C5 as amended: one process call on a block of N >= 1 sample frames stores the
\* peak meter once per sample frame (N times) if the editor is open, and leaves
\* it untouched if the editor is closed.
C5_MeterStoredPerFrame ==
    log # <<>> =>
        /\ Stores = IF editor_open THEN Len(log) ELSE 0
        /\ ~editor_open => peak_meter = log[1].peak_before

\* a block of two frames metered twice
C5_Witness ==
    /\ Len(log) = 2
    /\ editor_open
    /\ Stores = 2

\* the steps left are the ramp length less the next() calls made since set_target
C6_CountMatchesRamp ==
    \A p \in Params : smoothed[p].steps_left = ramp_len[p] - since[p]

\* the call that completes the count returns the target and leaves no step
C6_KthCallReturnsTarget ==
    \A i \in DOMAIN log : \A p \in Params :
        log[i].calls[p] = ramp_len[p] =>
            /\ Drawn(i, p) = last_set[p]
            /\ log[i].steps_left[p] = 0

\* with no step left and no set_target, no step changes the ramp state
C6_SettledStaysPut ==
    \A p \in Params :
        (smoothed[p].steps_left = 0 /\ sets' = sets) => smoothed'[p] = smoothed[p]

C7_ZeroSampleRateRejected ==
    (lifecycle # "Created" /\ sample_rate = 0)
    => (~init_result /\ lifecycle # "Processing")

\* a block was processed after initialize accepted a sample rate of zero
C7_Witness ==
    /\ sample_rate = 0
    /\ init_result
    /\ lifecycle = "Processing"
    /\ peak_meter_decay_weight = 0

\* a reset step changes none of the three
C8_ResetStep ==
    Reset => /\ smoothed' = smoothed
             /\ peak_meter_decay_weight' = peak_meter_decay_weight
             /\ peak_meter' = peak_meter

\* the process call after a reset takes the ramps on from where they stood
C8_ProcessAfterReset ==
    (lifecycle = "Reset" /\ lifecycle' = "Processing") =>
        \A p \in Params :
            /\ smoothed'[p].target = smoothed[p].target
            /\ smoothed'[p].steps_left =
                 IF smoothed[p].steps_left > Len(log')
                 THEN smoothed[p].steps_left - Len(log') ELSE 0

\* C8: reset leaves every smoothed parameter's ramp state, the decay weight and
\* the peak meter unchanged, so a ramp in progress continues toward its last
\* target in the next process call.
C8_ResetKeepsRamps == [][C8_ResetStep /\ C8_ProcessAfterReset]_vars

\* reset came while the threshold ramp was half way
C8_Witness ==
    /\ lifecycle = "Reset"
    /\ smoothed["threshold"].steps_left = 1
    /\ since["threshold"] = 1

\* the ramp state is one that set_target and next() can leave
C9_WellFormed ==
    \A p \in Params :
        /\ smoothed[p].target = last_set[p]
        /\ smoothed[p].steps_left \in 0..ramp_len[p]
        /\ p = "threshold" => smoothed[p].current > 0
        /\ log # <<>> => smoothed[p].steps_left = log[Len(log)].steps_left[p]

\* every next() takes one step off a ramp in progress; with none left it
\* returns the last target set
C9_Settles ==
    \A i \in DOMAIN log : \A p \in Params :
        /\ log[i].steps_left[p] = 0 => Drawn(i, p) = last_set[p]
        /\ (i > 1 /\ log[i - 1].steps_left[p] > 0)
              => log[i].steps_left[p] = log[i - 1].steps_left[p] - 1
        /\ (i > 1 /\ log[i - 1].steps_left[p] = 0) => log[i].steps_left[p] = 0

\* set_target on p leaves the ramp state of the other parameter alone
C9_OtherParameterUntouched ==
    \A p \in Params : \A value \in ParamValues(p) :
        SetTarget(p, value) => \A q \in Params \ {p} : smoothed'[q] = smoothed[q]

\* C9: under every interleaving of set_target calls of the control thread with
\* the next() calls of the audio thread the ramp state stays well formed; once
\* the set_target calls stop, every next() brings a ramp in progress one step
\* closer, and the values returned with no step left are the last target set,
\* so they settle there and stay; and set_target on one parameter never
\* changes the other parameter's ramp state.
C9_RampsSettleIndependently ==
    /\ [](C9_WellFormed /\ C9_Settles)
    /\ [][C9_OtherParameterUntouched]_vars

\* both parameters were set, the second while the first one's ramp was in
\* progress, and the block processed since drew the last targets
C9_Witness ==
    /\ sets = MaxSets
    /\ Len(log) = 2
    /\ \A p \in Params : last_set[p] # ParamDefault(p)
    /\ log[1].steps_left["threshold"] = 0
    /\ since["threshold"] = ramp_len["threshold"]
    /\ ramp_len["threshold"] = 2
    /\ log[1].calls["mix"] = 1
    /\ \A i \in DOMAIN log : \A p \in Params : Drawn(i, p) = last_set[p]

\* equal samples under equal (threshold, mix) come out equal, whatever stands
\* beside them
C10_SameInputSameOutput ==
    \A i, j \in DOMAIN log : \A c \in DOMAIN log[i].input : \A d \in DOMAIN log[j].input :
        (/\ log[i].input[c] = log[j].input[d]
         /\ log[i].threshold = log[j].threshold
         /\ log[i].mix = log[j].mix)
        => buffer[i][c] = buffer[j][d]

\* C10 as claimed: for every input sample x, threshold > 0 and mix in [0,1] the
\* sample written has absolute value at most |x| and is 0 or of the sign of x,
\* and it depends only on x and the (threshold, mix) drawn for the frame.
C10_Original ==
    /\ \A i \in DOMAIN log : \A c \in DOMAIN log[i].input :
         (log[i].threshold > 0 /\ log[i].mix >= 0 /\ log[i].mix <= ONE) =>
            /\ Abs(buffer[i][c]) <= Abs(log[i].input[c])
            /\ buffer[i][c] = 0 \/ Sign(buffer[i][c]) = Sign(log[i].input[c])
    /\ C10_SameInputSameOutput

\* C10 as amended: the sample written is 0 or of the sign of x and depends only
\* on x and the (threshold, mix) drawn for the frame; its absolute value is at
\* most |x| when mix is 0 or 1, and for a mix in between it exceeds |x| by no
\* more than the rounding of the blend, two units in the last place of x.
C10_NoAmplificationUpToRounding ==
    /\ \A i \in DOMAIN log : \A c \in DOMAIN log[i].input :
         LET x == log[i].input[c]
             y == buffer[i][c]
         IN  (log[i].threshold > 0 /\ log[i].mix >= 0 /\ log[i].mix <= ONE) =>
               /\ y = 0 \/ Sign(y) = Sign(x)
               /\ log[i].mix \in {0, ONE} => Abs(y) <= Abs(x)
               /\ Abs(y) <= Abs(x) + 2 * Ulp(x)
    /\ C10_SameInputSameOutput

\* a sample the rounding of the blend made louder, in a block that holds the
\* same sample value beside two different neighbours
C10_Witness ==
    /\ \E i \in DOMAIN log : \E c \in DOMAIN log[i].input :
          Abs(buffer[i][c]) > Abs(log[i].input[c])
    /\ \E i, j \in DOMAIN log :
          /\ log[i].input[2] = log[j].input[1]
          /\ log[i].input[1] # log[j].input[2]
          /\ buffer[i][2] = buffer[j][1]
====
